---- MODULE Spec2Model ----
(***************************************************************************)
(* Model of protected_server.py: a Flask application serving a fitted      *)
(* binary classifier.  POST /predict validates an observation, runs the    *)
(* pipeline and inserts a Prediction row; POST /update attaches the true   *)
(* class to a stored row.  Requests are handled by a pool of workers that  *)
(* share only the predictions table.                                       *)
(***************************************************************************)
EXTENDS Integers, Sequences, FiniteSets, TLC

VARIABLES
    table,      \* rows of the `prediction` table (class Prediction)
    nextPk,     \* next value of the auto-incrementing primary key `id`
    pc,         \* per worker: position in the handler it is running
    req,        \* per worker: the request being handled (endpoint, JSON body)
    p,          \* per worker: the handler's local Prediction instance `p`
    resp,       \* per worker: the response returned for req
    infer,      \* per worker: whether the handler invoked the pipeline for req
    prior,      \* per worker: the rows stored under the id req names when req arrived (history)
    nreq,       \* number of requests received so far (history)
    committed,  \* per observation_id: the label written by the latest /update commit (history)
    submitted   \* per observation_id: labels submitted by /update requests so far (history)

vars == <<table, nextPk, pc, req, p, resp, infer, prior, nreq, committed, submitted>>

----------------------------------------------------------------------------
(* Bounds of the model. *)

MaxRequests == 3
MaxId == 2

Workers == {"w1", "w2"}
ObsIds == 1..MaxId
Labels == {0, 1}    \* the classes of the binary classifier

----------------------------------------------------------------------------
(* JSON values as Python sees them after request.get_json(): each value    *)
(* carries its Python type.  A float holds its value in tenths.            *)

IntV(i) == [t |-> "int", n |-> i, s |-> ""]
StrV(str) == [t |-> "str", n |-> 0, s |-> str]
FloatV(tenths) == [t |-> "float", n |-> tenths, s |-> ""]
BoolV(b) == [t |-> "bool", n |-> IF b THEN 1 ELSE 0, s |-> ""]
NoneV == [t |-> "none", n |-> 0, s |-> ""]

\* Python truthiness, as used by `not x`.
Truthy(x) ==
    CASE x.t = "none" -> FALSE
      [] x.t = "str" -> x.s # ""
      [] OTHER -> x.n # 0

\* isinstance(x, int): bool is a subclass of int.
IsInstanceInt(x) == x.t \in {"int", "bool"}

\* dict.get(key): None when the key is absent.
Get(d, key) == IF key \in DOMAIN d THEN d[key] ELSE NoneV

EmptyDict == [k \in {} |-> NoneV]

----------------------------------------------------------------------------
(* Input validation functions.  Each returns (ok, error).                  *)

Pass == [ok |-> TRUE, error |-> [msg |-> ""]]
Fail(err) == [ok |-> FALSE, error |-> err]

check_request(request) ==
    IF "observation_id" \notin DOMAIN request
    THEN Fail([msg |-> "Field missing from request", field |-> "observation_id",
               request |-> request])
    ELSE IF "data" \notin DOMAIN request
    THEN Fail([msg |-> "Field missing from request", field |-> "data",
               request |-> request])
    ELSE Pass

valid_columns ==
    {"age", "sex", "race", "workclass", "education", "marital-status",
     "capital-gain", "capital-loss", "hours-per-week"}

check_valid_column(observation) ==
    LET keys == DOMAIN observation IN
    IF valid_columns \ keys # {}
    THEN Fail([msg |-> "Missing columns", columns |-> valid_columns \ keys])
    ELSE IF keys \ valid_columns # {}
    THEN Fail([msg |-> "Unrecognized columns provided", columns |-> keys \ valid_columns])
    ELSE Pass

\* Keys of valid_category_map in insertion order, which is the order of iteration.
category_keys == <<"sex", "race", "workclass", "education", "marital-status">>

valid_category_map ==
    [sex |-> {"Male", "Female"},
     race |-> {"White", "Black", "Asian-Pac-Islander", "Amer-Indian-Eskimo", "Other"},
     workclass |-> {"State-gov", "Self-emp-not-inc", "Private", "Federal-gov",
                    "Local-gov", "?", "Self-emp-inc", "Without-pay", "Never-worked"},
     education |-> {"Bachelors", "HS-grad", "11th", "Masters", "9th", "Some-college",
                    "Assoc-acdm", "Assoc-voc", "7th-8th", "Doctorate", "Prof-school",
                    "5th-6th", "10th", "1st-4th", "Preschool", "12th"}]
    @@ ("marital-status" :>
            {"Never-married", "Married-civ-spouse", "Divorced", "Married-spouse-absent",
             "Separated", "Married-AF-spouse", "Widowed"})

\* `value not in valid_categories`: only a str equals one of the listed strings.
InCategories(value, valid_categories) == value.t = "str" /\ value.s \in valid_categories

RECURSIVE check_categorical_from(_, _)
check_categorical_from(observation, i) ==
    IF i > Len(category_keys) THEN Pass
    ELSE LET key == category_keys[i] IN
         IF key \in DOMAIN observation
         THEN IF ~InCategories(observation[key], valid_category_map[key])
              THEN Fail([msg |-> "Invalid value provided", key |-> key,
                         value |-> observation[key],
                         allowed |-> valid_category_map[key]])
              ELSE check_categorical_from(observation, i + 1)
         ELSE Fail([msg |-> "Categorical field {} missing"])

check_categorical_values(observation) == check_categorical_from(observation, 1)

HourMin == 0
HourMax == 168

check_hour(observation) ==
    LET hours_per_week == Get(observation, "hours-per-week") IN
    IF ~Truthy(hours_per_week)
    THEN Fail([msg |-> "Field hour missing"])
    ELSE IF ~IsInstanceInt(hours_per_week)
    THEN Fail([msg |-> "Field hour is not an integer"])
    ELSE IF hours_per_week.n < HourMin \/ hours_per_week.n > HourMax
    THEN Fail([msg |-> "Field hours-per-week is not between 0 and 168",
               value |-> hours_per_week])
    ELSE Pass

AgeMin == 10
AgeMax == 100

check_age(observation) ==
    LET age == Get(observation, "age") IN
    IF ~Truthy(age)
    THEN Fail([msg |-> "Field age missing"])
    ELSE IF ~IsInstanceInt(age)
    THEN Fail([msg |-> "Field age is not an integer"])
    ELSE IF age.n < AgeMin \/ age.n > AgeMax
    THEN Fail([msg |-> "Field age is not between 10 and 100", value |-> age])
    ELSE Pass

----------------------------------------------------------------------------
(* The fitted pipeline (data/pipeline.pickle) is loaded at start-up and     *)
(* never changes.  It stands here as a fixed function of the validated      *)
(* observation giving the probability of the positive class in percent;    *)
(* predict_proba returns the row [P(class 0), P(class 1)] and predict the   *)
(* more probable class.                                                     *)

PositivePct(observation) ==
    (3 * observation["age"].n + observation["hours-per-week"].n) % 101

pipeline_predict_proba(observation) ==
    <<100 - PositivePct(observation), PositivePct(observation)>>

pipeline_predict(observation) == IF PositivePct(observation) > 50 THEN 1 ELSE 0

----------------------------------------------------------------------------
(* The predictions table.                                                   *)

Null == -1      \* true_class of a row that has no label (null=True)
NoPk == 0       \* id of a Prediction instance that was never saved

\* Variant of NewPrediction: true_class defaults to class 0 instead of null.
NewPredictionLabelled(_id, proba, data) ==
    [id |-> NoPk, observation_id |-> _id, observation |-> data, proba |-> proba,
     true_class |-> 0]

\* Prediction(observation_id=.., proba=.., observation=..): true_class is None.
NewPrediction(_id, proba, data) ==
    [id |-> NoPk, observation_id |-> _id, observation |-> data, proba |-> proba,
     true_class |-> Null]

\* Prediction.get(Prediction.observation_id == _id): the rows that match.
Select(tbl, _id) == {row \in tbl : row.observation_id = _id}

\* Variant of SaveNew: INSERT OR REPLACE, the new row replaces the stored one.
SaveNewUpsert(tbl, pk, inst) ==
    [ok |-> TRUE,
     table |-> (tbl \ Select(tbl, inst.observation_id)) \cup {[inst EXCEPT !.id = pk]},
     inst |-> [inst EXCEPT !.id = pk]]

\* Variant of SaveNew: observation_id without the unique constraint.
SaveNewNoUnique(tbl, pk, inst) ==
    [ok |-> TRUE, table |-> tbl \cup {[inst EXCEPT !.id = pk]},
     inst |-> [inst EXCEPT !.id = pk]]

\* p.save() of an instance without id: INSERT.  observation_id is unique, so
\* the INSERT raises IntegrityError when a row carries the same observation_id.
SaveNew(tbl, pk, inst) ==
    IF Select(tbl, inst.observation_id) # {}
    THEN [ok |-> FALSE, table |-> tbl, inst |-> inst]
    ELSE [ok |-> TRUE, table |-> tbl \cup {[inst EXCEPT !.id = pk]},
          inst |-> [inst EXCEPT !.id = pk]]

\* Variant of SaveExisting: true_class is written only while the row has none.
SaveExistingWriteOnce(tbl, inst) ==
    {IF row.id = inst.id /\ row.true_class = Null THEN inst ELSE row : row \in tbl}

\* p.save() of an instance read from the table: UPDATE of every field of the
\* row with the instance's id.
SaveExisting(tbl, inst) ==
    {IF row.id = inst.id THEN inst ELSE row : row \in tbl}

\* model_to_dict(p): the instance as a flat mapping.
model_to_dict(inst) == inst

----------------------------------------------------------------------------
(* Responses.  status 0: not returned yet; 500: an uncaught exception.      *)

NoBody == [k \in {} |-> 0]
NoResp == [status |-> 0, exc |-> "", body |-> NoBody]
Json(body) == [status |-> 200, exc |-> "", body |-> body]
ServerError(exc) == [status |-> 500, exc |-> exc, body |-> NoBody]

NoP == NewPrediction(0, 0, NoBody)
NoReq == [endpoint |-> "", body |-> NoBody]

----------------------------------------------------------------------------
(* /predict, up to the construction of p (lines 184-222).                   *)

\* Variant of PredictValidate: the result of check_age is not acted on.
PredictValidateSkipAge(obs_dict) ==
    LET request_r == check_request(obs_dict) IN
    IF ~request_r.ok THEN request_r
    ELSE LET observation == obs_dict["data"]
             columns_r == check_valid_column(observation)
             categories_r == check_categorical_values(observation)
             hour_r == check_hour(observation)
         IN  IF ~columns_r.ok THEN columns_r
             ELSE IF ~categories_r.ok THEN categories_r
             ELSE IF ~hour_r.ok THEN hour_r
             ELSE Pass

\* Variant of PredictValidate: check_age runs before check_hour.
PredictValidateAgeFirst(obs_dict) ==
    LET request_r == check_request(obs_dict) IN
    IF ~request_r.ok THEN request_r
    ELSE LET observation == obs_dict["data"]
             columns_r == check_valid_column(observation)
             categories_r == check_categorical_values(observation)
             hour_r == check_hour(observation)
             age_r == check_age(observation)
         IN  IF ~columns_r.ok THEN columns_r
             ELSE IF ~categories_r.ok THEN categories_r
             ELSE IF ~age_r.ok THEN age_r
             ELSE IF ~hour_r.ok THEN hour_r
             ELSE Pass

\* The five checks in the handler's order; the first failure is returned.
PredictValidate(obs_dict) ==
    LET request_r == check_request(obs_dict) IN
    IF ~request_r.ok THEN request_r
    ELSE LET observation == obs_dict["data"]
             columns_r == check_valid_column(observation)
             categories_r == check_categorical_values(observation)
             hour_r == check_hour(observation)
             age_r == check_age(observation)
         IN  IF ~columns_r.ok THEN columns_r
             ELSE IF ~categories_r.ok THEN categories_r
             ELSE IF ~hour_r.ok THEN hour_r
             ELSE IF ~age_r.ok THEN age_r
             ELSE Pass

\* proba = pipeline.predict_proba(obs)[0, 0]
PredictProba(observation) == pipeline_predict_proba(observation)[1]

\* The handler's locals after line 222: response, p, and whether the
\* pipeline ran; for a failed check, the error response.
PredictLocals(obs_dict) ==
    LET v == PredictValidate(obs_dict) IN
    IF ~v.ok
    THEN [done |-> TRUE, infer |-> FALSE, p |-> NoP,
          response |-> Json("error" :> v.error)]
    ELSE LET _id == obs_dict["observation_id"]
             observation == obs_dict["data"]
             proba == PredictProba(observation)
             prediction == pipeline_predict(observation)
         IN  [done |-> FALSE, infer |-> TRUE,
              p |-> NewPrediction(_id, proba, obs_dict),
              response |-> [NoResp EXCEPT !.body =
                               [observation_id |-> _id,
                                prediction |-> (prediction = 1),
                                probability |-> proba]]]

\* The id a request names, 0 when it names none.
NamedId(r) ==
    IF r.endpoint = "predict"
    THEN (IF "observation_id" \in DOMAIN r.body THEN r.body["observation_id"] ELSE 0)
    ELSE IF "_id" \in DOMAIN r.body THEN r.body["_id"]
    ELSE IF "observation_id" \in DOMAIN r.body THEN r.body["observation_id"]
    ELSE 0

Ready(w) == pc[w] \in {"idle", "responded"} /\ nreq < MaxRequests

Arrive(w, r) ==
    /\ req' = [req EXCEPT ![w] = r]
    /\ nreq' = nreq + 1
    /\ prior' = [prior EXCEPT ![w] = Select(table, NamedId(r))]

PredictBegin(w, obs_dict) ==
    /\ Ready(w)
    /\ Arrive(w, [endpoint |-> "predict", body |-> obs_dict])
    /\ LET l == PredictLocals(obs_dict) IN
         /\ pc' = [pc EXCEPT ![w] = IF l.done THEN "responded" ELSE "predict_save"]
         /\ infer' = [infer EXCEPT ![w] = l.infer]
         /\ p' = [p EXCEPT ![w] = l.p]
         /\ resp' = [resp EXCEPT ![w] = l.response]
    /\ UNCHANGED <<table, nextPk, committed, submitted>>

(* /predict, p.save() and the response (lines 223-230).                     *)
PredictSave(w) ==
    /\ pc[w] = "predict_save"
    /\ LET r == SaveNew(table, nextPk, p[w]) IN
         /\ table' = r.table
         /\ nextPk' = IF r.ok THEN nextPk + 1 ELSE nextPk
         /\ p' = [p EXCEPT ![w] = r.inst]
         /\ resp' = [resp EXCEPT ![w] =
               IF r.ok THEN Json(resp[w].body)
               ELSE Json(resp[w].body @@
                         ("error" :> [msg |-> "ERROR: Observation ID already exists",
                                      id |-> p[w].observation_id]))]
    /\ pc' = [pc EXCEPT ![w] = "responded"]
    /\ UNCHANGED <<req, infer, prior, nreq, committed, submitted>>

----------------------------------------------------------------------------
(* /update, up to the assignment of p.true_class (lines 235-238).  The     *)
(* handler reads the keys `_id` and `true_class` of the body; a key that is *)
(* absent raises KeyError, which the handler does not catch.               *)

UpdateLocals(tbl, obs) ==
    IF "_id" \notin DOMAIN obs
    THEN [done |-> TRUE, p |-> NoP, response |-> ServerError("KeyError")]
    ELSE IF Select(tbl, obs["_id"]) = {}
    THEN [done |-> TRUE, p |-> NoP,
          response |-> Json("error" :> [msg |-> "Observation ID does not exist",
                                        id |-> obs["_id"]])]
    ELSE LET row == CHOOSE x \in Select(tbl, obs["_id"]) : TRUE IN
         IF "true_class" \notin DOMAIN obs
         THEN [done |-> TRUE, p |-> row, response |-> ServerError("KeyError")]
         ELSE [done |-> FALSE, p |-> [row EXCEPT !.true_class = obs["true_class"]],
               response |-> NoResp]

UpdateBegin(w, obs) ==
    /\ Ready(w)
    /\ Arrive(w, [endpoint |-> "update", body |-> obs])
    /\ LET l == UpdateLocals(table, obs) IN
         /\ pc' = [pc EXCEPT ![w] = IF l.done THEN "responded" ELSE "update_save"]
         /\ p' = [p EXCEPT ![w] = l.p]
         /\ resp' = [resp EXCEPT ![w] = l.response]
    /\ infer' = [infer EXCEPT ![w] = FALSE]
    /\ submitted' =
         LET r == [endpoint |-> "update", body |-> obs] IN
         IF NamedId(r) \in ObsIds /\ "true_class" \in DOMAIN obs
         THEN [submitted EXCEPT ![NamedId(r)] = @ \cup {obs["true_class"]}]
         ELSE submitted
    /\ UNCHANGED <<table, nextPk, committed>>

(* /update, p.save() and the response (lines 239-240).                      *)
UpdateSave(w) ==
    /\ pc[w] = "update_save"
    /\ table' = SaveExisting(table, p[w])
    /\ resp' = [resp EXCEPT ![w] = Json(model_to_dict(p[w]))]
    /\ committed' = [committed EXCEPT ![p[w].observation_id] = p[w].true_class]
    /\ pc' = [pc EXCEPT ![w] = "responded"]
    /\ UNCHANGED <<nextPk, req, p, infer, prior, nreq, submitted>>

----------------------------------------------------------------------------
(* Request bodies.                                                          *)

Observation(keys, sex, education, hours, age) ==
    [k \in keys |->
        CASE k = "age" -> age
          [] k = "sex" -> sex
          [] k = "education" -> education
          [] k = "hours-per-week" -> hours
          [] k = "race" -> StrV("White")
          [] k = "workclass" -> StrV("Private")
          [] k = "marital-status" -> StrV("Divorced")
          [] OTHER -> IntV(0)]

ObsA == Observation(valid_columns, StrV("Male"), StrV("Masters"), IntV(40), IntV(30))
ObsB == Observation(valid_columns, StrV("Female"), StrV("HS-grad"), IntV(20), IntV(10))

\* Bodies of the server under concurrent load: two valid observations per
\* id, a body failing the first check and a body failing the last.
PredictBodies ==
    {[observation_id |-> i, data |-> o] : i \in ObsIds, o \in {ObsA, ObsB}}
    \cup {[data |-> ObsA],
          [observation_id |-> 1,
           data |-> Observation(valid_columns,
                                StrV("Male"), StrV("Masters"), IntV(40), IntV(9))]}

\* /update bodies keyed `_id` (the key the handler reads) and keyed
\* `observation_id` (the key /predict reads), with and without a label.
UpdateBodies ==
    {("_id" :> i) @@ ("true_class" :> c) : i \in ObsIds, c \in Labels}
    \cup {[observation_id |-> i, true_class |-> c] : i \in ObsIds, c \in Labels}
    \cup {("_id" :> 1)}

\* Bodies for the validation checks: every combination of a column set, a
\* value of two categorical fields, of hours-per-week and of age, inside or
\* outside an envelope.
KeySets ==
    {(valid_columns \ d) \cup e :
        d \in SUBSET {"age", "hours-per-week", "sex"}, e \in SUBSET {"zip"}}
SexValues == {StrV("Male"), StrV("Alien"), IntV(1)}
EducationValues == {StrV("Masters"), StrV("PhD")}
HourValues ==
    {IntV(-1), IntV(0), IntV(1), IntV(40), IntV(168), IntV(169), FloatV(405),
     FloatV(0), StrV("40"), StrV(""), BoolV(TRUE), BoolV(FALSE), NoneV}
AgeValues ==
    {IntV(0), IntV(9), IntV(10), IntV(100), IntV(101), FloatV(305), StrV("30"),
     BoolV(TRUE), NoneV}
Observations ==
    {Observation(ks, sx, ed, h, a) :
        ks \in KeySets, sx \in SexValues, ed \in EducationValues,
        h \in HourValues, a \in AgeValues}
ValidationBodies ==
    {[observation_id |-> i, data |-> o] : i \in ObsIds, o \in Observations}
    \cup {[data |-> o] : o \in Observations}
    \cup {[observation_id |-> i] : i \in ObsIds}
    \cup {NoBody}

----------------------------------------------------------------------------
(* The server: a pool of workers over a predictions table that starts      *)
(* empty (DB.create_tables on a new predictions.db).                       *)

InitWorkers ==
    /\ nextPk = Cardinality(table) + 1
    /\ pc = [w \in Workers |-> "idle"]
    /\ req = [w \in Workers |-> NoReq]
    /\ p = [w \in Workers |-> NoP]
    /\ resp = [w \in Workers |-> NoResp]
    /\ infer = [w \in Workers |-> FALSE]
    /\ prior = [w \in Workers |-> {}]
    /\ nreq = 0
    /\ submitted = [i \in ObsIds |-> {}]

Init ==
    /\ table = {}
    /\ committed = [i \in ObsIds |-> Null]
    /\ InitWorkers

Next ==
    \E w \in Workers :
        \/ \E obs_dict \in PredictBodies : PredictBegin(w, obs_dict)
        \/ PredictSave(w)
        \/ \E obs \in UpdateBodies : UpdateBegin(w, obs)
        \/ UpdateSave(w)

Spec == Init /\ [][Next]_vars

(* One /predict request, drawn from ValidationBodies, handled by one worker *)
(* over a predictions.db that an earlier run left empty or holding a row.  *)

SeedRow(c) ==
    [id |-> 1, observation_id |-> 1,
     observation |-> [observation_id |-> 1, data |-> ObsB],
     proba |-> PredictProba(ObsB), true_class |-> c]

InitValidate ==
    /\ \E c \in {Null} \cup Labels :
          /\ table \in {{}, {SeedRow(c)}}
          /\ committed = [i \in ObsIds |-> IF i = 1 /\ table # {} THEN c ELSE Null]
    /\ InitWorkers

NextValidate ==
    \/ \E obs_dict \in ValidationBodies : nreq = 0 /\ PredictBegin("w1", obs_dict)
    \/ PredictSave("w1")

SpecValidate == InitValidate /\ [][NextValidate]_vars

----------------------------------------------------------------------------
(* Vocabulary of the properties.                                            *)

Responded(w) == pc[w] = "responded"
IsPredict(w) == req[w].endpoint = "predict"
IsUpdate(w) == req[w].endpoint = "update"

\* The feature mapping a body carries, empty when it carries none.
Data(body) == IF "data" \in DOMAIN body THEN body["data"] ELSE EmptyDict

\* Check i of the five (envelope, column set, categorical values,
\* hours-per-week, age), applied on its own.
CheckResult(i, body) ==
    CASE i = 1 -> check_request(body)
      [] i = 2 -> check_valid_column(Data(body))
      [] i = 3 -> check_categorical_values(Data(body))
      [] i = 4 -> check_hour(Data(body))
      [] i = 5 -> check_age(Data(body))

CheckFails(i, body) == ~CheckResult(i, body).ok
FailsSomeCheck(body) == \E i \in 1..5 : CheckFails(i, body)
FirstFailing(body) ==
    CHOOSE i \in 1..5 : CheckFails(i, body) /\ \A j \in 1..(i - 1) : ~CheckFails(j, body)

ValidPredict(w) == IsPredict(w) /\ ~FailsSomeCheck(req[w].body)

\* The worker's p.save() inserted a row (p received an id that the table holds).
Inserted(w) == p[w].id # NoPk /\ \E row \in table : row.id = p[w].id

PredictSaveStep(w) == pc[w] = "predict_save" /\ pc'[w] = "responded"
UpdateSaveStep(w) == pc[w] = "update_save" /\ pc'[w] = "responded"
ArrivalStep == nreq' = nreq + 1

----------------------------------------------------------------------------
\* C1: the table never holds two rows with the same observation_id, and no
\* step of a /predict handler (the arrival of a request, or its p.save())
\* removes or changes a row already stored: a /predict on a stored id leaves
\* the stored observation, proba and true_class as they were.
C1_UniqueFirstWriteWins ==
    [][/\ \A r1, r2 \in table' : r1.observation_id = r2.observation_id => r1 = r2
       /\ (ArrivalStep \/ \E w \in Workers : PredictSaveStep(w))
             => \A row \in table : row \in table']_vars

\* A /predict on an id stored under another payload has answered with the
\* duplicate error, and the row found on arrival is still in the table.
C1_Witness ==
    \E w \in Workers :
        /\ Responded(w) /\ ValidPredict(w)
        /\ prior[w] # {}
        /\ "error" \in DOMAIN resp[w].body
        /\ \E row \in prior[w] : row \in table /\ row.observation # req[w].body

\* C2: every answered valid /predict carries its own prediction and
\* probability, and the duplicate error exactly when its p.save() inserted
\* nothing; of two answered valid /predict requests on one id at most one
\* inserted, and exactly one when the id was absent as each arrived.
C2_ExactlyOneInsert ==
    \A w \in Workers :
        (Responded(w) /\ ValidPredict(w)) =>
            LET body == resp[w].body
                observation == req[w].body["data"]
            IN  /\ resp[w].status = 200
                /\ {"observation_id", "prediction", "probability"} \subseteq DOMAIN body
                /\ body["observation_id"] = req[w].body["observation_id"]
                /\ body["probability"] = PredictProba(observation)
                /\ body["prediction"] = (pipeline_predict(observation) = 1)
                /\ ("error" \in DOMAIN body) <=> ~Inserted(w)
                /\ Inserted(w) =>
                       \E row \in table : row.id = p[w].id /\ row.observation = req[w].body
                /\ \A v \in Workers \ {w} :
                       (Responded(v) /\ ValidPredict(v) /\ NamedId(req[v]) = NamedId(req[w])) =>
                           /\ ~(Inserted(w) /\ Inserted(v))
                           /\ (prior[w] = {} /\ prior[v] = {}) => (Inserted(w) \/ Inserted(v))

\* Two /predict requests with different payloads raced on an id that was
\* absent as each arrived: one inserted, the other answered with its own
\* probability and the duplicate error.
C2_Witness ==
    \E w, v \in Workers :
        /\ w # v
        /\ Responded(w) /\ ValidPredict(w) /\ Responded(v) /\ ValidPredict(v)
        /\ NamedId(req[w]) = NamedId(req[v])
        /\ prior[w] = {} /\ prior[v] = {}
        /\ Inserted(w) /\ ~Inserted(v)
        /\ "error" \in DOMAIN resp[v].body
        /\ resp[v].body["probability"] # resp[w].body["probability"]

\* C3: the arrival of a /predict request that fails one of the five checks
\* ends the handler with a body holding only the error, without a call of
\* the pipeline and with the table unchanged.
C3_RejectedIsFrameOnly ==
    [][(ArrivalStep /\ FailsSomeCheck(req'["w1"].body)) =>
            /\ pc'["w1"] = "responded"
            /\ resp'["w1"].status = 200
            /\ DOMAIN resp'["w1"].body = {"error"}
            /\ ~infer'["w1"]
            /\ table' = table
            /\ nextPk' = nextPk]_vars

\* A request failing only the age check was rejected over a table that
\* holds a row.
C3_Witness ==
    /\ Responded("w1") /\ IsPredict("w1")
    /\ CheckFails(5, req["w1"].body)
    /\ \A i \in 1..4 : ~CheckFails(i, req["w1"].body)
    /\ DOMAIN resp["w1"].body = {"error"}
    /\ table # {}

\* C7: the error returned for a rejected /predict request is the error of
\* the first failing check in the order envelope, column set, categorical
\* values, hours-per-week, age, and never the error of a later failing check.
C7_FirstFailureReported ==
    (pc["w1"] # "idle" /\ FailsSomeCheck(req["w1"].body)) =>
        LET body == req["w1"].body
            first == FirstFailing(body)
        IN  /\ "error" \in DOMAIN resp["w1"].body
            /\ resp["w1"].body["error"] = CheckResult(first, body).error
            /\ \A j \in (first + 1)..5 :
                   CheckFails(j, body) =>
                       resp["w1"].body["error"] # CheckResult(j, body).error

\* A request failing both the hours-per-week and the age check (and none
\* before) was answered with the hours-per-week error.
C7_Witness ==
    /\ Responded("w1")
    /\ CheckFails(4, req["w1"].body) /\ CheckFails(5, req["w1"].body)
    /\ FirstFailing(req["w1"].body) = 4
    /\ resp["w1"].body["error"] = check_hour(Data(req["w1"].body)).error

\* C4: a /update whose body is {"observation_id": id, "true_class": label},
\* on an id that was stored when it arrived, answers with the full record:
\* true_class set to the label, and observation_id, observation and proba
\* as stored.
C4_UpdateDocumentedBody ==
    \A w \in Workers :
        (/\ Responded(w) /\ IsUpdate(w)
         /\ DOMAIN req[w].body = {"observation_id", "true_class"}
         /\ prior[w] # {}) =>
            /\ resp[w].status = 200
            /\ {"observation_id", "observation", "proba", "true_class"}
                   \subseteq DOMAIN resp[w].body
            /\ resp[w].body["true_class"] = req[w].body["true_class"]
            /\ \E row \in prior[w] :
                   /\ resp[w].body["observation_id"] = row.observation_id
                   /\ resp[w].body["observation"] = row.observation
                   /\ resp[w].body["proba"] = row.proba

\* C5: a /update naming an id that no row carried when it arrived answers
\* with a body holding only the not-found error.
C5_UpdateUnknownId ==
    \A w \in Workers :
        (/\ Responded(w) /\ IsUpdate(w)
         /\ NamedId(req[w]) # 0
         /\ prior[w] = {}) =>
            /\ resp[w].status = 200
            /\ DOMAIN resp[w].body = {"error"}
            /\ resp[w].body["error"].msg = "Observation ID does not exist"

\* The /update handler on bodies keyed `_id`, the key it reads: on a stored
\* id the answer is the record with the submitted label and the stored
\* observation_id, observation and proba; on an unknown id it is a body
\* holding only the not-found error.
UpdateKeyedAsRead ==
    \A w \in Workers :
        (/\ Responded(w) /\ IsUpdate(w)
         /\ DOMAIN req[w].body = {"_id", "true_class"}) =>
            /\ resp[w].status = 200
            /\ IF prior[w] = {}
               THEN /\ DOMAIN resp[w].body = {"error"}
                    /\ resp[w].body["error"].msg = "Observation ID does not exist"
               ELSE /\ resp[w].body["true_class"] = req[w].body["true_class"]
                    /\ \E row \in prior[w] :
                           /\ resp[w].body["observation_id"] = row.observation_id
                           /\ resp[w].body["observation"] = row.observation
                           /\ resp[w].body["proba"] = row.proba

\* The hours-per-week rule of the specification: present, an integer (as
\* isinstance(value, int) reads it), and 0 <= value <= 168.
HourAccepted(observation) ==
    /\ "hours-per-week" \in DOMAIN observation
    /\ IsInstanceInt(observation["hours-per-week"])
    /\ 0 <= observation["hours-per-week"].n
    /\ observation["hours-per-week"].n <= 168

\* C6: for every /predict body that carries a feature mapping, the
\* hours-per-week check passes exactly when the field is present, is an
\* integer and lies in 0..168.
C6_HourCheckExact ==
    (pc["w1"] # "idle" /\ IsPredict("w1") /\ "data" \in DOMAIN req["w1"].body) =>
        (check_hour(req["w1"].body["data"]).ok <=> HourAccepted(req["w1"].body["data"]))

\* C8: the probability an answered valid /predict returns is the pipeline's
\* probability of the positive class for its observation, and the row it
\* inserted holds the same value.
C8_PositiveClassProbability ==
    \A w \in Workers :
        (Responded(w) /\ ValidPredict(w)) =>
            /\ resp[w].body["probability"] = PositivePct(req[w].body["data"])
            /\ \A row \in table :
                   (Inserted(w) /\ row.id = p[w].id) =>
                       row.proba = resp[w].body["probability"]

\* C9: the true_class of every row is the label written by the latest
\* /update commit on its observation_id (null when there was none), and a
\* label a row holds was submitted by a /update on that id.
C9_LastCommitWins ==
    \A row \in table :
        /\ row.true_class = committed[row.observation_id]
        /\ row.true_class # Null => row.true_class \in submitted[row.observation_id]

\* Two /update requests with different labels both read the unlabelled row
\* before either committed, and both have committed.
C9_Witness ==
    \E w, v \in Workers :
        /\ w # v
        /\ Responded(w) /\ IsUpdate(w) /\ resp[w].status = 200
        /\ Responded(v) /\ IsUpdate(v) /\ resp[v].status = 200
        /\ "true_class" \in DOMAIN resp[w].body /\ "true_class" \in DOMAIN resp[v].body
        /\ NamedId(req[w]) = NamedId(req[v])
        /\ resp[w].body["true_class"] # resp[v].body["true_class"]
        /\ \A row \in prior[w] \cup prior[v] : row.true_class = Null
        /\ \E row \in table :
               /\ row.observation_id = NamedId(req[w])
               /\ row.true_class = resp[w].body["true_class"]

\* C10: no step removes a row; a row appears only in the p.save() of a
\* /predict that passed every check and ran the pipeline, and appears with
\* true_class null; a null true_class becomes a label only in the p.save()
\* of a /update on the row's identifier.
C10_Lifecycle ==
    [][/\ \A row \in table :
              \E r2 \in table' : r2.id = row.id /\ r2.observation_id = row.observation_id
       /\ \A r2 \in table' :
              (\A row \in table : row.id # r2.id) =>
                  /\ r2.true_class = Null
                  /\ \E w \in Workers :
                         /\ PredictSaveStep(w)
                         /\ ~FailsSomeCheck(req[w].body)
                         /\ infer[w]
                         /\ r2.observation_id = NamedId(req[w])
       /\ \A row \in table, r2 \in table' :
              (row.id = r2.id /\ row.true_class = Null /\ r2.true_class # Null) =>
                  \E w \in Workers :
                      /\ UpdateSaveStep(w)
                      /\ resp'[w].status = 200
                      /\ NamedId(req[w]) = row.observation_id]_vars

\* A row created by a /predict has been labelled by a /update, while the
\* other worker's rejected /predict left no row.
C10_Witness ==
    \E w, v \in Workers :
        /\ Responded(w) /\ IsUpdate(w) /\ resp[w].status = 200
        /\ \E row \in table :
               row.observation_id = NamedId(req[w]) /\ row.true_class # Null
        /\ Responded(v) /\ IsPredict(v) /\ FailsSomeCheck(req[v].body)
        /\ Cardinality(table) = 1

====
